---- MODULE Spec2Model ----
(***************************************************************************)
(* Habit tracker: the session gate (App) and the habit store               *)
(* (DashboardPage) with its localStorage persistence.                      *)
(*                                                                         *)
(* One action per handler / callback.  React re-renders synchronously      *)
(* after a state update and runs the effects of the render, so every       *)
(* action that changes App state ends with Render, which mounts, keeps or  *)
(* unmounts DashboardPage and runs its [user.id] effect (loadHabits).      *)
(* loadHabits is declared async but contains no await: it runs to          *)
(* completion inside the effect.                                           *)
(* The App of apps/web/src/App.tsx is the same gate without the            *)
(* onAuthStateChange listener and without the dashboard: its behaviours    *)
(* are those of this model in which no event is pushed.                    *)
(*                                                                         *)
(* History variables (not program state): last, before, lastEvent,         *)
(* lastReported, pushed, and the owner field of a habit record.            *)
(***************************************************************************)
EXTENDS Integers, Sequences, FiniteSets, TLC

\* ---- bounds -------------------------------------------------------------
MaxClock == 2
MaxHabits == 2
MaxEvents == 1
MaxSeedStreak == 1

\* ---- domains ------------------------------------------------------------
Users == {"A", "B"}
NoUser == "null"
Err == "error"
NoEvent == "none"
Names == {" ", "run"}
\* the readings Date.now() can give during the session (milliseconds since
\* the seeded records were written); two calls may get the same reading
Clock == 1..MaxClock

VARIABLES
  provider,             \* identity provider: the session it currently holds
  events,               \* auth-state-change events pushed, not yet delivered
  checkPc,              \* checkUser: "requested" | "responded" | "done"
  checkResult,          \* what getUser() resolves to (a user, null, or Err)
  isLoading,            \* App state
  user,                 \* App state (the user's id, or NoUser)
  habits,               \* DashboardPage state
  loading,              \* DashboardPage state
  newHabitName,         \* DashboardPage state
  newHabitDescription,  \* DashboardPage state
  showForm,             \* DashboardPage state
  storage,              \* localStorage: key -> slot
  last,                 \* history: the latest habit-store call
  before,               \* history: habits before the latest toggle that returned
  lastEvent,            \* history: identity of the latest delivered event
  lastReported,         \* history: identity the provider reported latest
  pushed                \* history: number of events pushed so far

appVars == <<provider, events, checkPc, checkResult, isLoading, user,
             lastEvent, lastReported, pushed>>
formVars == <<newHabitName, newHabitDescription, showForm>>
dashVars == <<habits, loading, newHabitName, newHabitDescription, showForm,
              last, before>>
vars == <<provider, events, checkPc, checkResult, isLoading, user, habits,
          loading, newHabitName, newHabitDescription, showForm, storage,
          last, before, lastEvent, lastReported, pushed>>

\* ---- strings ------------------------------------------------------------
\* String.prototype.trim on the names of Names
Trim(s) == IF s = " " THEN "" ELSE s

\* `habits_${user.id}`
HabitsKey(u) == "habits_" \o u

StorageKeys == {HabitsKey(u) : u \in Users}

\* ---- habit records and their serialization -------------------------------
Habit(id, name, description, completed, streak, created, owner) ==
  [id |-> id, name |-> name, description |-> description,
   completed_today |-> completed, streak |-> streak, created_at |-> created,
   owner |-> owner]

\* localStorage.getItem returns null for a key that was never written
Missing == [kind |-> "null", body |-> <<>>]

\* a slot holding text that JSON.parse rejects
Malformed == [kind |-> "garbage", body |-> <<>>]

\* JSON.stringify(newHabits): one member list per record, in order
JSONstringify(hs) ==
  [kind |-> "json",
   body |-> [i \in 1..Len(hs) |->
              <<hs[i].id, hs[i].name, hs[i].description,
                hs[i].completed_today, hs[i].streak, hs[i].created_at,
                hs[i].owner>>]]

\* JSON.parse(storedHabits) of a slot that parses
JSONparse(slot) ==
  [i \in 1..Len(slot.body) |->
     Habit(slot.body[i][1], slot.body[i][2], slot.body[i][3],
           slot.body[i][4], slot.body[i][5], slot.body[i][6],
           slot.body[i][7])]

\* ---- DashboardPage: pure parts -------------------------------------------
\* loadHabits: the value of habits after the call, hs being the value before
LoadedHabits(slot, hs) ==
  IF slot.kind = "json" THEN JSONparse(slot) ELSE hs

NewHabitDone(name, description, t, u) ==
  Habit(ToString(t), name, description, TRUE, 1, t, u)

\* the record addHabit builds
NewHabit(name, description, t, u) ==
  Habit(ToString(t), name, description, FALSE, 0, t, u)

Max(a, b) == IF a >= b THEN a ELSE b

ToggledStreakAlwaysUp(h) == h.streak + 1

ToggledStreakNoFloor(h) ==
  IF ~h.completed_today THEN h.streak + 1 ELSE h.streak - 1

\* streak: !habit.completed_today ? habit.streak + 1 : Math.max(0, habit.streak - 1)
ToggledStreak(h) ==
  IF ~h.completed_today THEN h.streak + 1 ELSE Max(0, h.streak - 1)

\* toggleHabit: updatedHabits
ToggledHabits(hs, id) ==
  [i \in 1..Len(hs) |->
     IF hs[i].id = id
     THEN [hs[i] EXCEPT !.completed_today = ~hs[i].completed_today,
                        !.streak = ToggledStreak(hs[i])]
     ELSE hs[i]]

\* habits.filter(pred)
RECURSIVE Filter(_, _)
Filter(hs, id) ==
  IF hs = <<>> THEN <<>>
  ELSE IF Head(hs).id # id THEN <<Head(hs)>> \o Filter(Tail(hs), id)
       ELSE Filter(Tail(hs), id)

\* ---- history records ------------------------------------------------------
\* a habit-store call: the handler, its argument, what the write did, whether
\* the handler threw; seq tells a call from an identical one right before it
Call(op, arg, write, threw) ==
  [op |-> op, arg |-> arg, write |-> write, threw |-> threw, seq |-> 0]

NoCall == Call("none", "", "none", FALSE)

Record(c) ==
  /\ last' = IF c = last THEN [c EXCEPT !.seq = 1] ELSE c
  /\ before' = IF c.op = "toggle" /\ ~c.threw THEN habits ELSE <<>>

\* ---- App: pure parts -------------------------------------------------------
UserAfterCheckReset(result, cur) == IF result = Err THEN NoUser ELSE result

\* checkUser after the await: setUser(user) in try, nothing but a log in catch
UserAfterCheck(result, cur) == IF result = Err THEN cur ELSE result

\* the routes: DashboardPage is rendered iff the gate is open and user is set
DashboardShown(il, u) == ~il /\ u # NoUser

\* ---- rendering ---------------------------------------------------------------
\* the state a DashboardPage starts with (its useState initial values)
Unmount ==
  /\ habits' = <<>>
  /\ loading' = TRUE
  /\ newHabitName' = ""
  /\ newHabitDescription' = ""
  /\ showForm' = FALSE
  /\ last' = NoCall
  /\ before' = <<>>

\* useEffect(() => { loadHabits() }, [user.id]) on the state hs
LoadHabits(u, hs) ==
  /\ habits' = LoadedHabits(storage[HabitsKey(u)], hs)
  /\ loading' = FALSE
  /\ Record(Call("load", storage[HabitsKey(u)].kind, "none", FALSE))

\* App renders with isLoading = il and user = u
Render(il, u) ==
  IF ~DashboardShown(il, u) THEN Unmount
  ELSE IF ~DashboardShown(isLoading, user)
       THEN /\ LoadHabits(u, <<>>)
            /\ UNCHANGED formVars
       ELSE IF u # user
            THEN /\ LoadHabits(u, habits)
                 /\ UNCHANGED formVars
            ELSE UNCHANGED dashVars

\* ---- initial state -----------------------------------------------------------
\* what an earlier session, an earlier version or another tab left in the
\* slots: user A comes back to a slot that is missing, damaged or holds one
\* habit; user B has no slot or a damaged one
SeedHabits(u) ==
  {<<Habit("0", "run", "", c, s, 0, u)>> : c \in BOOLEAN, s \in 0..MaxSeedStreak}

SeedSlots(u) ==
  IF u = "A"
  THEN {Missing, Malformed} \cup {JSONstringify(hs) : hs \in SeedHabits(u)}
  ELSE {Missing, Malformed}

Init ==
  /\ provider \in {"A", NoUser}
  /\ events = <<>>
  /\ checkPc = "requested"
  /\ checkResult = NoUser
  /\ isLoading = TRUE
  /\ user = NoUser
  /\ habits = <<>>
  /\ loading = TRUE
  /\ newHabitName = ""
  /\ newHabitDescription = ""
  /\ showForm = FALSE
  /\ \E sa \in SeedSlots("A"), sb \in SeedSlots("B") :
       storage = [k \in StorageKeys |-> IF k = HabitsKey("A") THEN sa ELSE sb]
  /\ last = NoCall
  /\ before = <<>>
  /\ lastEvent = NoEvent
  /\ lastReported = NoEvent
  /\ pushed = 0

\* ---- identity provider ---------------------------------------------------------
\* the provider answers getUser() with the session it holds, or with an error
ProviderAnswer ==
  /\ checkPc = "requested"
  /\ \E r \in {provider, Err} :
       /\ checkResult' = r
       /\ lastReported' = IF r = Err THEN lastReported ELSE r
  /\ checkPc' = "responded"
  /\ UNCHANGED <<provider, events, isLoading, user, lastEvent, pushed,
                 storage>>
  /\ UNCHANGED dashVars

\* the provider's session changes (sign-in, sign-out, refresh elsewhere)
\* and it pushes an auth-state-change event
ProviderAuthChange ==
  /\ pushed < MaxEvents
  /\ \E u \in Users \cup {NoUser} :
       /\ provider' = u
       /\ events' = Append(events, u)
       /\ lastReported' = u
  /\ pushed' = pushed + 1
  /\ UNCHANGED <<checkPc, checkResult, isLoading, user, lastEvent, storage>>
  /\ UNCHANGED dashVars

\* ---- App -------------------------------------------------------------------------
\* checkUser resumes after await supabase.auth.getUser()
CheckUser ==
  /\ checkPc = "responded"
  /\ user' = UserAfterCheck(checkResult, user)
  /\ isLoading' = FALSE
  /\ checkPc' = "done"
  /\ Render(FALSE, UserAfterCheck(checkResult, user))
  /\ UNCHANGED <<provider, events, checkResult, lastEvent, lastReported,
                 pushed, storage>>

\* the onAuthStateChange callback: setUser(session?.user ?? null)
OnAuthStateChange ==
  /\ events # <<>>
  /\ user' = Head(events)
  /\ events' = Tail(events)
  /\ lastEvent' = Head(events)
  /\ Render(isLoading, Head(events))
  /\ UNCHANGED <<provider, checkPc, checkResult, isLoading, lastReported,
                 pushed, storage>>

\* ---- DashboardPage ------------------------------------------------------------------
\* saveHabits(newHabits) called by handler op; ok = setItem does not throw.
\* setItem throwing leaves the handler before setHabits.
SaveHabits(op, arg, newHabits, ok) ==
  /\ IF ok
     THEN /\ storage' = [storage EXCEPT ![HabitsKey(user)] = JSONstringify(newHabits)]
          /\ habits' = newHabits
     ELSE UNCHANGED <<storage, habits>>
  /\ Record(Call(op, arg, IF ok THEN "ok" ELSE "failed", ~ok))

SetShowForm ==
  /\ DashboardShown(isLoading, user)
  /\ ~showForm
  /\ showForm' = TRUE
  /\ UNCHANGED <<habits, loading, newHabitName, newHabitDescription, last,
                 before, storage>>
  /\ UNCHANGED appVars

SetNewHabitName ==
  /\ DashboardShown(isLoading, user)
  /\ showForm
  /\ \E n \in Names : newHabitName' = n
  /\ UNCHANGED <<habits, loading, newHabitDescription, showForm, last, before,
                 storage>>
  /\ UNCHANGED appVars

Cancel ==
  /\ DashboardShown(isLoading, user)
  /\ showForm
  /\ showForm' = FALSE
  /\ newHabitName' = ""
  /\ newHabitDescription' = ""
  /\ UNCHANGED <<habits, loading, last, before, storage>>
  /\ UNCHANGED appVars

addHabit ==
  /\ DashboardShown(isLoading, user)
  /\ showForm
  /\ Len(habits) < MaxHabits
  /\ IF Trim(newHabitName) = ""
     THEN /\ Record(Call("add", newHabitName, "none", FALSE))
          /\ UNCHANGED <<habits, storage, formVars>>
     ELSE \E t \in Clock, ok \in BOOLEAN :
            /\ SaveHabits("add", newHabitName,
                          Append(habits, NewHabit(newHabitName,
                                                  newHabitDescription, t, user)),
                          ok)
            /\ IF ok
               THEN /\ newHabitName' = ""
                    /\ newHabitDescription' = ""
                    /\ showForm' = FALSE
               ELSE UNCHANGED formVars
  /\ UNCHANGED loading
  /\ UNCHANGED appVars

toggleHabit ==
  /\ DashboardShown(isLoading, user)
  /\ \E i \in 1..Len(habits), ok \in BOOLEAN :
       SaveHabits("toggle", habits[i].id, ToggledHabits(habits, habits[i].id), ok)
  /\ UNCHANGED loading
  /\ UNCHANGED formVars
  /\ UNCHANGED appVars

deleteHabit ==
  /\ DashboardShown(isLoading, user)
  /\ \E i \in 1..Len(habits), ok \in BOOLEAN :
       SaveHabits("delete", habits[i].id, Filter(habits, habits[i].id), ok)
  /\ UNCHANGED loading
  /\ UNCHANGED formVars
  /\ UNCHANGED appVars

\* handleLogout: await supabase.auth.signOut(); the provider drops the
\* session and pushes the event
handleLogout ==
  /\ DashboardShown(isLoading, user)
  /\ pushed < MaxEvents
  /\ provider' = NoUser
  /\ events' = Append(events, NoUser)
  /\ lastReported' = NoUser
  /\ pushed' = pushed + 1
  /\ UNCHANGED <<checkPc, checkResult, isLoading, user, lastEvent, storage>>
  /\ UNCHANGED dashVars

Next ==
  \/ ProviderAnswer
  \/ ProviderAuthChange
  \/ CheckUser
  \/ OnAuthStateChange
  \/ SetShowForm
  \/ SetNewHabitName
  \/ Cancel
  \/ addHabit
  \/ toggleHabit
  \/ deleteHabit
  \/ handleLogout

Spec == Init /\ [][Next]_vars

\* the habit store within one session: the check resolves, the provider
\* pushes no auth-state-change event, the user works on the dashboard
StoreNext ==
  \/ ProviderAnswer
  \/ CheckUser
  \/ SetShowForm
  \/ SetNewHabitName
  \/ Cancel
  \/ addHabit
  \/ toggleHabit
  \/ deleteHabit

StoreSpec == Init /\ [][StoreNext]_vars

\* the session gate alone: the check and the provider's events, with the
\* dashboard mounted, loaded and unmounted by Render but left untouched
GateNext ==
  \/ ProviderAnswer
  \/ ProviderAuthChange
  \/ CheckUser
  \/ OnAuthStateChange

GateSpec == Init /\ [][GateNext]_vars

\* ---- helpers of the properties ------------------------------------------------
\* the step is a habit-store call (load, add, toggle or delete) of kind op
Called(op) == last' # last /\ last'.op = op

\* what read(key) gives for a slot: its records, or empty when the slot is
\* missing or does not parse
ReadSlot(slot) == IF slot.kind = "json" THEN JSONparse(slot) ELSE <<>>

SameButToggle(h, g) ==
  /\ g.id = h.id
  /\ g.name = h.name
  /\ g.description = h.description
  /\ g.created_at = h.created_at
  /\ g.owner = h.owner

\* ---- C1 ------------------------------------------------------------------------
\* C1: a toggle(id) that returns, on a collection holding a record with that
\* id, flips completed_today of every such record and adjusts its streak:
\* false,N becomes true,N+1 and true,N becomes false,max(0,N-1); nothing else
\* changes; and no record ever has a negative streak.
C1_ToggleFlipsAndAdjusts ==
  /\ [](\A i \in 1..Len(habits) : habits[i].streak >= 0)
  /\ [][(Called("toggle") /\ ~last'.threw) =>
          /\ \E i \in 1..Len(habits) : habits[i].id = last'.arg
          /\ Len(habits') = Len(habits)
          /\ \A i \in 1..Len(habits) :
               IF habits[i].id = last'.arg
               THEN /\ SameButToggle(habits[i], habits'[i])
                    /\ habits[i].completed_today =>
                         /\ ~habits'[i].completed_today
                         /\ habits'[i].streak =
                              IF habits[i].streak = 0 THEN 0
                              ELSE habits[i].streak - 1
                    /\ ~habits[i].completed_today =>
                         /\ habits'[i].completed_today
                         /\ habits'[i].streak = habits[i].streak + 1
               ELSE habits'[i] = habits[i]]_vars

\* a toggle has just taken a record from true,0 to false,0 (the floor)
C1_Witness ==
  /\ last.op = "toggle"
  /\ ~last.threw
  /\ \E i \in 1..Len(habits) :
       /\ habits[i].id = last.arg
       /\ before[i].completed_today
       /\ before[i].streak = 0
       /\ ~habits[i].completed_today
       /\ habits[i].streak = 0

\* ---- C2 ------------------------------------------------------------------------
\* C2: an add whose name is non-empty after trimming, and that returns, makes
\* the collection one longer, keeps the existing records unchanged and in
\* order, appends a record with streak 0 and completed_today false, and leaves
\* the user's slot holding exactly the new collection.
C2_AddAppendsAndPersists ==
  [][(Called("add") /\ Trim(last'.arg) # "" /\ ~last'.threw) =>
       /\ Len(habits') = Len(habits) + 1
       /\ SubSeq(habits', 1, Len(habits)) = habits
       /\ habits'[Len(habits')].streak = 0
       /\ habits'[Len(habits')].completed_today = FALSE
       /\ habits'[Len(habits')].name = last'.arg
       /\ storage'[HabitsKey(user)].kind = "json"
       /\ JSONparse(storage'[HabitsKey(user)]) = habits']_vars

\* an add has just appended a fresh record behind a toggled one
C2_Witness ==
  /\ last.op = "add"
  /\ last.write = "ok"
  /\ Len(habits) = 2
  /\ habits[1].streak > 0
  /\ habits[2].streak = 0
  /\ ~habits[2].completed_today
  /\ ReadSlot(storage[HabitsKey(user)]) = habits

\* ---- C3 ------------------------------------------------------------------------
\* C3: when every record with the id has a streak above 0, two toggle(id)
\* calls in a row that both return give back the collection as it was before
\* the first, whichever value completed_today had.
C3_ToggleTwiceRestores ==
  [][(/\ last.op = "toggle"
      /\ ~last.threw
      /\ Called("toggle")
      /\ ~last'.threw
      /\ last'.arg = last.arg
      /\ \A i \in 1..Len(before) :
           before[i].id = last.arg => before[i].streak > 0)
     => habits' = before]_vars

\* the second of two toggles has just restored a record that was false,N>0
C3_Witness ==
  /\ last.op = "toggle"
  /\ ~last.threw
  /\ last.seq = 1
  /\ \E i \in 1..Len(habits) :
       /\ habits[i].id = last.arg
       /\ ~habits[i].completed_today
       /\ habits[i].streak > 0
       /\ before[i].completed_today
       /\ before[i].streak = habits[i].streak + 1

\* ---- C4 ------------------------------------------------------------------------
\* C4: no two records of the displayed collection have the same id.
C4_IdsUnique ==
  \A i, j \in 1..Len(habits) : i # j => habits[i].id # habits[j].id

\* ---- C5 ------------------------------------------------------------------------
\* C5: whenever a collection is displayed (the dashboard is mounted and load
\* has finished), reading the current user's slot gives that same collection.
C5_SlotHoldsDisplayed ==
  (DashboardShown(isLoading, user) /\ ~loading) =>
    ReadSlot(storage[HabitsKey(user)]) = habits

\* ---- C6 ------------------------------------------------------------------------
\* C6: load never raises, and a load that finds the slot missing or malformed
\* leaves the in-memory collection empty, whatever it was before.
C6_LoadOfBadSlotIsEmpty ==
  [][Called("load") =>
       /\ ~last'.threw
       /\ last'.arg \in {"null", "garbage"} => habits' = <<>>]_vars

\* ---- C7 ------------------------------------------------------------------------
\* C7: when the write to the slot fails during add, toggle or delete, the
\* handler does not raise, the slot keeps its value, and the in-memory
\* collection holds the result of the mutation.
C7_WriteFailureKeepsMutation ==
  [][(last' # last /\ last'.write = "failed") =>
       /\ ~last'.threw
       /\ storage' = storage
       /\ last'.op = "add" =>
            \E t \in Clock :
              habits' = Append(habits, NewHabit(newHabitName,
                                                newHabitDescription, t, user))
       /\ last'.op = "toggle" => habits' = ToggledHabits(habits, last'.arg)
       /\ last'.op = "delete" => habits' = Filter(habits, last'.arg)]_vars

\* ---- C8 ------------------------------------------------------------------------
\* C8: every record displayed for a user, and every record in a user's slot,
\* was created by an add performed while that user was signed in.
C8_NoSharingAcrossUsers ==
  /\ DashboardShown(isLoading, user) =>
       \A i \in 1..Len(habits) : habits[i].owner = user
  /\ \A u \in Users :
       \A i \in 1..Len(ReadSlot(storage[HabitsKey(u)])) :
         ReadSlot(storage[HabitsKey(u)])[i].owner = u

\* ---- C9 ------------------------------------------------------------------------
\* the step in which checkUser resumes from a getUser() that failed
CheckFails == checkPc = "responded" /\ checkResult = Err /\ checkPc' = "done"

\* C9 as stated: when the initial check fails, the gate leaves loading and
\* the current user is null, also when an event was delivered before.
C9_FailedCheckMeansSignedOut ==
  [][CheckFails => (~isLoading' /\ user' = NoUser)]_vars

\* C9 amended: when the initial check fails, the gate leaves loading and the
\* current user is the one the latest delivered auth-state-change event
\* reported, and null when no event was delivered before.
C9_FailedCheckKeepsEventUser ==
  [][CheckFails =>
       /\ ~isLoading'
       /\ user' = IF lastEvent = NoEvent THEN NoUser ELSE lastEvent]_vars

\* the check has failed after an event had signed a user in
C9_Witness ==
  /\ checkPc = "done"
  /\ checkResult = Err
  /\ ~isLoading
  /\ lastEvent \in Users
  /\ user = lastEvent

\* ---- C10 -----------------------------------------------------------------------
\* C10: once the check has resolved and every pushed event is delivered, the
\* current user is the identity the provider reported most recently, and the
\* gate has left unknown for good.
C10_GateFollowsLatestReport ==
  (checkPc = "done" /\ events = <<>>) =>
    /\ ~isLoading
    /\ lastReported # NoEvent => user = lastReported
====
